---- MODULE Spec2Model ----
(***************************************************************************)
(* Model of src/lib/aiError.ts (normalizeAIError, handleAIError,           *)
(* getStreamFriendlyMessage) and of the two API route handlers.            *)
(*                                                                         *)
(* JavaScript values are records carrying their `typeof` tag; objects and  *)
(* functions carry their class and a function `props` from the property    *)
(* names that are present to the property values.  Properties are plain    *)
(* data properties (no getters, no proxies).  Dotted taxonomy codes such   *)
(* as "auth.no_api_key" are sequences of their dot-separated segments,     *)
(* <<"auth", "no_api_key">>, so that String.startsWith("auth.") is a       *)
(* computation on the value.                                               *)
(***************************************************************************)
EXTENDS Integers, Sequences, FiniteSets, TLC

VARIABLES pc, error, result, logs, res, friendly, req, calls, thrown

vars == <<pc, error, result, logs, res, friendly, req, calls, thrown>>

----------------------------------------------------------------------------
(* JavaScript values *)

Undefined == [typeOf |-> "undefined", isNull |-> FALSE]

Null == [typeOf |-> "object", isNull |-> TRUE]

Num(n) == [typeOf |-> "number", isNull |-> FALSE, n |-> n]

Str(s) == [typeOf |-> "string", isNull |-> FALSE, s |-> s]

Obj(cls, props) == [typeOf |-> "object", isNull |-> FALSE, cls |-> cls, props |-> props]

Fn(props) == [typeOf |-> "function", isNull |-> FALSE, cls |-> "Function", props |-> props]

\* error?.key : undefined on null, undefined and on values without the property
Get(v, key) ==
  IF v.typeOf \in {"object", "function"} /\ ~v.isNull /\ key \in DOMAIN v.props
  THEN v.props[key]
  ELSE Undefined

\* The structured error classes of the SDK that the module imports; each
\* extends AISDKError.  "SDKOther" is any other subclass of AISDKError.
NamedClasses ==
  {"LoadAPIKeyError", "NoSuchModelError", "UnsupportedFunctionalityError",
   "TypeValidationError", "InvalidPromptError", "EmptyResponseBodyError",
   "InvalidResponseDataError", "JSONParseError", "NoContentGeneratedError",
   "APICallError"}

SDKClasses == NamedClasses \cup {"AISDKError", "SDKOther"}

\* error instanceof C, matching by name as well (the bug of a classifier
\* that probes the name string for exported classes too)
instanceOfByName(v, C) ==
  \/ /\ v.typeOf \in {"object", "function"} /\ ~v.isNull
     /\ \/ v.cls = C
        \/ C = "AISDKError" /\ v.cls \in SDKClasses
  \/ /\ Get(v, "name").typeOf = "string"
     /\ Get(v, "name").s = C

\* error instanceof C : by prototype chain, never by the name property
instanceOf(v, C) ==
  /\ v.typeOf \in {"object", "function"} /\ ~v.isNull
  /\ \/ v.cls = C
     \/ C = "AISDKError" /\ v.cls \in SDKClasses

----------------------------------------------------------------------------
(* Helpers of aiError.ts *)

isObject(value) == value.typeOf = "object" /\ ~value.isNull

\* a getString that loses the caller's fallback
getStringNoFallback(value, fallback) ==
  IF value.typeOf = "string" THEN value.s ELSE ""

getString(value, fallback) ==
  IF value.typeOf = "string" THEN value.s ELSE fallback

hasProp(obj, key) == isObject(obj) /\ key \in DOMAIN obj.props

\* readStatusFrom probing statusCode before status
readStatusFromSwapped(err) ==
  IF hasProp(err, "statusCode") /\ err.props["statusCode"].typeOf = "number"
  THEN err.props["statusCode"]
  ELSE IF hasProp(err, "status") /\ err.props["status"].typeOf = "number"
  THEN err.props["status"]
  ELSE IF /\ hasProp(err, "response")
          /\ hasProp(err.props["response"], "status")
          /\ err.props["response"].props["status"].typeOf = "number"
  THEN err.props["response"].props["status"]
  ELSE Undefined

\* number | undefined, as a JavaScript value
readStatusFrom(err) ==
  IF hasProp(err, "status") /\ err.props["status"].typeOf = "number"
  THEN err.props["status"]
  ELSE IF hasProp(err, "statusCode") /\ err.props["statusCode"].typeOf = "number"
  THEN err.props["statusCode"]
  ELSE IF /\ hasProp(err, "response")
          /\ hasProp(err.props["response"], "status")
          /\ err.props["response"].props["status"].typeOf = "number"
  THEN err.props["response"].props["status"]
  ELSE Undefined

\* readStatusFrom(error) ?? dflt
statusOr(err, dflt) ==
  IF readStatusFrom(err).typeOf = "number" THEN readStatusFrom(err).n ELSE dflt

hasName(err, names) == getString(Get(err, "name"), "") \in names

\* String.prototype.toLowerCase on the strings the network rule lets through
toLowerCase(s) ==
  CASE s = "ETIMEDOUT" -> "etimedout"
    [] s = "ECONNRESET" -> "econnreset"
    [] s = "ENOTFOUND" -> "enotfound"
    [] OTHER -> s

Normalized(status, code, name, message) ==
  [status |-> status, code |-> code, name |-> name, message |-> message]

\* the status-to-code table with a strict comparison at 500
apiCallCodeStrict(status) ==
  IF status = 401 THEN <<"auth", "unauthorized">>
  ELSE IF status = 403 THEN <<"auth", "forbidden">>
  ELSE IF status = 404 THEN <<"provider", "not_found">>
  ELSE IF status = 409 THEN <<"provider", "conflict">>
  ELSE IF status = 422 THEN <<"provider", "unprocessable">>
  ELSE IF status = 429 THEN <<"provider", "rate_limited">>
  ELSE IF status > 500 THEN <<"provider", "error">>
  ELSE <<"provider", "request_failed">>

apiCallCode(status) ==
  IF status = 401 THEN <<"auth", "unauthorized">>
  ELSE IF status = 403 THEN <<"auth", "forbidden">>
  ELSE IF status = 404 THEN <<"provider", "not_found">>
  ELSE IF status = 409 THEN <<"provider", "conflict">>
  ELSE IF status = 422 THEN <<"provider", "unprocessable">>
  ELSE IF status = 429 THEN <<"provider", "rate_limited">>
  ELSE IF status >= 500 THEN <<"provider", "error">>
  ELSE <<"provider", "request_failed">>

\* a RetryError rule whose default is 504
retryRuleGatewayTimeout(err, name, message) ==
  Normalized(statusOr(err, 504), <<"provider", "retry">>, name, message)

retryRule(err, name, message) ==
  Normalized(statusOr(err, 503), <<"provider", "retry">>, name, message)

\* the generic fetch/node rule: matches iff `code` is one of the three strings
networkMatches(err) ==
  /\ hasProp(err, "code") /\ err.props["code"].typeOf = "string"
  /\ err.props["code"].s \in {"ETIMEDOUT", "ECONNRESET", "ENOTFOUND"}

networkRule(err, name, message) ==
  Normalized(502, <<"network", toLowerCase(err.props["code"].s)>>, name, message)

\* the same rules with the generic `code` check ahead of the RetryError rule
nameRulesNetworkFirst(err, name, message) ==
  IF hasName(err, {"InvalidToolInputError", "NoSuchToolError", "ToolCallRepairError"})
  THEN Normalized(400, <<"tool", "invalid">>, name, message)
  ELSE IF hasName(err, {"InvalidArgumentError", "InvalidDataContentError",
                        "InvalidMessageRoleError", "MessageConversionError"})
  THEN Normalized(400, <<"input", "invalid">>, name, message)
  ELSE IF hasName(err, {"InvalidStreamPartError"})
  THEN Normalized(502, <<"stream", "invalid_part">>, name, message)
  ELSE IF hasName(err, {"UnsupportedModelVersionError", "NoSuchProviderError"})
  THEN Normalized(400, <<"model", "unsupported">>, name, message)
  ELSE IF hasName(err, {"DownloadError", "MCPClientError"})
  THEN Normalized(502, <<"provider", "network_error">>, name, message)
  ELSE IF networkMatches(err)
  THEN networkRule(err, name, message)
  ELSE IF hasName(err, {"RetryError"})
  THEN retryRule(err, name, message)
  ELSE IF instanceOf(err, "AISDKError")
  THEN Normalized(statusOr(err, 500), <<"ai_sdk", "error">>, name, message)
  ELSE Normalized(500, <<"unknown">>, name, message)

\* the rules that follow the instanceof rules, in source order
nameRules(err, name, message) ==
  IF hasName(err, {"InvalidToolInputError", "NoSuchToolError", "ToolCallRepairError"})
  THEN Normalized(400, <<"tool", "invalid">>, name, message)
  ELSE IF hasName(err, {"InvalidArgumentError", "InvalidDataContentError",
                        "InvalidMessageRoleError", "MessageConversionError"})
  THEN Normalized(400, <<"input", "invalid">>, name, message)
  ELSE IF hasName(err, {"InvalidStreamPartError"})
  THEN Normalized(502, <<"stream", "invalid_part">>, name, message)
  ELSE IF hasName(err, {"UnsupportedModelVersionError", "NoSuchProviderError"})
  THEN Normalized(400, <<"model", "unsupported">>, name, message)
  ELSE IF hasName(err, {"DownloadError", "MCPClientError"})
  THEN Normalized(502, <<"provider", "network_error">>, name, message)
  ELSE IF hasName(err, {"RetryError"})
  THEN retryRule(err, name, message)
  ELSE IF networkMatches(err)
  THEN networkRule(err, name, message)
  ELSE IF instanceOf(err, "AISDKError")
  THEN Normalized(statusOr(err, 500), <<"ai_sdk", "error">>, name, message)
  ELSE Normalized(500, <<"unknown">>, name, message)

normalizeAIError(err) ==
  LET name == getString(Get(err, "name"), "Error")
      message == getString(Get(err, "message"), "Unexpected error")
  IN
  IF instanceOf(err, "LoadAPIKeyError")
  THEN Normalized(401, <<"auth", "no_api_key">>, name, "Missing or invalid API key")
  ELSE IF instanceOf(err, "NoSuchModelError")
  THEN Normalized(400, <<"model", "not_found">>, name, message)
  ELSE IF instanceOf(err, "UnsupportedFunctionalityError")
  THEN Normalized(400, <<"model", "unsupported_functionality">>, name, message)
  ELSE IF instanceOf(err, "TypeValidationError") \/ instanceOf(err, "InvalidPromptError")
  THEN Normalized(400, <<"input", "invalid">>, name, message)
  ELSE IF \/ instanceOf(err, "EmptyResponseBodyError")
          \/ instanceOf(err, "InvalidResponseDataError")
          \/ instanceOf(err, "JSONParseError")
  THEN Normalized(502, <<"provider", "invalid_response">>, name, message)
  ELSE IF instanceOf(err, "NoContentGeneratedError")
  THEN Normalized(502, <<"provider", "no_output">>, name, message)
  ELSE IF instanceOf(err, "APICallError")
  THEN Normalized(statusOr(err, 502), apiCallCode(statusOr(err, 502)), name, message)
  ELSE nameRules(err, name, message)

\* code.startsWith(seg + "."): the first segment is seg and a dot follows it
startsWith(code, seg) == Len(code) >= 2 /\ code[1] = seg

\* a mapper that tests the provider prefix instead of the exact provider codes
getStreamFriendlyMessageByPrefix(err) ==
  LET normalized == normalizeAIError(err) IN
  IF startsWith(normalized.code, "auth")
  THEN "Authentication failed (check API key)."
  ELSE IF startsWith(normalized.code, "provider")
  THEN "The model provider had an error. Please retry."
  ELSE IF startsWith(normalized.code, "input")
  THEN "Invalid input. Please adjust your request and try again."
  ELSE IF startsWith(normalized.code, "tool")
  THEN "A tool call failed. Please try again."
  ELSE IF startsWith(normalized.code, "model")
  THEN "Model configuration issue. Please try again later."
  ELSE IF startsWith(normalized.code, "network")
  THEN "Network error. Please retry."
  ELSE "Something went wrong. Please try again."

getStreamFriendlyMessage(err) ==
  LET normalized == normalizeAIError(err) IN
  IF startsWith(normalized.code, "auth")
  THEN "Authentication failed (check API key)."
  ELSE IF normalized.code = <<"provider", "rate_limited">>
  THEN "Rate limited. Please wait and try again."
  ELSE IF startsWith(normalized.code, "input")
  THEN "Invalid input. Please adjust your request and try again."
  ELSE IF startsWith(normalized.code, "tool")
  THEN "A tool call failed. Please try again."
  ELSE IF startsWith(normalized.code, "model")
  THEN "Model configuration issue. Please try again later."
  ELSE IF startsWith(normalized.code, "network")
  THEN "Network error. Please retry."
  ELSE IF normalized.code = <<"provider", "error">>
  THEN "The model provider had an error. Please retry."
  ELSE "Something went wrong. Please try again."

----------------------------------------------------------------------------
(* The values handed to the classifier *)

Absent == [typeOf |-> "absent", isNull |-> FALSE]

Keys == {"name", "message", "status", "statusCode", "response", "code"}

\* the object's own properties: the keys whose value is not Absent
MkProps(name, message, status, statusCode, response, code) ==
  LET f == [k \in Keys |->
              CASE k = "name" -> name
                [] k = "message" -> message
                [] k = "status" -> status
                [] k = "statusCode" -> statusCode
                [] k = "response" -> response
                [] k = "code" -> code]
  IN [k \in {j \in Keys : f[j].typeOf # "absent"} |-> f[k]]

NameOnlyNames ==
  {"InvalidToolInputError", "NoSuchToolError", "ToolCallRepairError",
   "InvalidArgumentError", "InvalidDataContentError", "InvalidMessageRoleError",
   "MessageConversionError", "InvalidStreamPartError",
   "UnsupportedModelVersionError", "NoSuchProviderError",
   "DownloadError", "MCPClientError", "RetryError"}

NameStrings == NameOnlyNames \cup {"LoadAPIKeyError", "APICallError", "Error", "TypeError"}

NameValues == {Absent, Num(7)} \cup {Str(s) : s \in NameStrings}

MessageValues == {Absent, Num(0), Str("boom")}

CodeValues == {Absent, Num(110), Str("ETIMEDOUT"), Str("ECONNRESET"), Str("ENOTFOUND"), Str("EPIPE")}

StatusNumbers == {200, 400, 401, 403, 404, 409, 418, 422, 429, 499, 500, 503}

StatusValues == {Absent, Str("429")} \cup {Num(n) : n \in StatusNumbers}

StatusCodeValues == {Absent, Str("404"), Num(404)}

EmptyProps == [k \in {} |-> Undefined]

ResponseValues ==
  {Absent, Null, Str("response"), Obj("Object", EmptyProps),
   Obj("Object", [k \in {"status"} |-> Str("503")]),
   Obj("Object", [k \in {"status"} |-> Num(503)])}

Classes == {"Object"} \cup SDKClasses

Primitives == {Undefined, Null, Num(42), Str("just a string")}

\* a function value: typeof is "function" and it has its own name
Functions ==
  {Fn(MkProps(Str(n), Absent, Absent, Absent, Absent, c)) :
     n \in {"RetryError", "handler"}, c \in {Absent, Str("ETIMEDOUT")}}

\* the plain objects of the documented scenarios
ScenarioInputs ==
  {Obj("Object", MkProps(Str("APICallError"), Absent, Num(429), Absent, Absent, Absent)),
   Obj("Object", MkProps(Absent, Str("boom"), Absent, Absent, Absent, Absent)),
   Obj("Object", EmptyProps)}

\* objects of every class with every name, message and code
KindInputs ==
  {Obj(cls, MkProps(n, m, Absent, Absent, Absent, c)) :
     cls \in Classes, n \in NameValues, m \in MessageValues, c \in CodeValues}

\* objects that exercise the status extraction
StatusInputs ==
  {Obj(cls, MkProps(n, Str("boom"), s, sc, r, c)) :
     cls \in {"Object", "APICallError", "SDKOther", "LoadAPIKeyError"},
     n \in {Absent, Str("RetryError"), Str("APICallError")},
     s \in StatusValues, sc \in StatusCodeValues, r \in ResponseValues,
     c \in {Absent, Str("ETIMEDOUT")}}

Inputs == Primitives \cup Functions \cup ScenarioInputs \cup KindInputs \cup StatusInputs

----------------------------------------------------------------------------
(* State *)

NoResult == [status |-> 0, code |-> <<>>, name |-> "", message |-> ""]

NoRequest == [handler |-> "none", method |-> "", body |-> ""]

FreshResponse ==
  [statusCode |-> 200, headers |-> {}, statusLines |-> 0, bodies |-> <<>>, calls |-> <<>>]

Init ==
  /\ pc = "idle"
  /\ error = Undefined
  /\ result = NoResult
  /\ logs = <<>>
  /\ res = FreshResponse
  /\ friendly = ""
  /\ req = NoRequest
  /\ calls = <<>>
  /\ thrown = "none"

\* a direct call of the classifier
Normalize ==
  /\ pc = "idle"
  /\ \E e \in Inputs :
       /\ error' = e
       /\ result' = normalizeAIError(e)
       /\ pc' = "normalized"
       /\ UNCHANGED <<logs, res, friendly, req, calls, thrown>>

\* a call of the friendly message mapper
FriendlyMessage ==
  /\ pc = "idle"
  /\ \E e \in Inputs :
       /\ error' = e
       /\ friendly' = getStreamFriendlyMessage(e)
       /\ pc' = "mapped"
       /\ UNCHANGED <<result, logs, res, req, calls, thrown>>

----------------------------------------------------------------------------
(* handleAIError: normalize, log, JSON write, fallback raw write *)

Payload(r) == [error |-> [code |-> r.code, name |-> r.name, message |-> r.message]]

\* JSON.stringify(payload): the key/value tokens in insertion order
JSONstringify(p) ==
  <<"{", "error", "{", "code", p.error.code, "name", p.error.name,
    "message", p.error.message, "}", "}">>

LogEntry(e, r) ==
  [name |-> r.name, code |-> r.code, status |-> r.status, message |-> r.message,
   stack |-> Get(e, "stack"), cause |-> Get(e, "cause")]

HandleCall ==
  /\ pc = "idle"
  /\ \E e \in Inputs :
       /\ error' = e
       /\ result' = normalizeAIError(e)
       /\ pc' = "log"
       /\ UNCHANGED <<logs, res, friendly, req, calls, thrown>>

\* a reporter that goes to the write without logging
HandleLogSkipped ==
  /\ pc = "log"
  /\ pc' = "json"
  /\ UNCHANGED <<error, result, logs, res, friendly, req, calls, thrown>>

HandleLog ==
  /\ pc = "log"
  /\ logs' = Append(logs, LogEntry(error, result))
  /\ pc' = "json"
  /\ UNCHANGED <<error, result, res, friendly, req, calls, thrown>>

\* the transport commits a response: status line, headers, body
Commit(r, contentType, body, call) ==
  [r EXCEPT !.statusLines = @ + 1,
            !.headers = IF contentType = "" THEN @ ELSE @ \cup {<<"Content-Type", contentType>>},
            !.bodies = Append(@, body),
            !.calls = Append(@, call)]

\* res.status(status) only records the code on the response object
SetStatus(r, status) == [r EXCEPT !.statusCode = status, !.calls = Append(@, "status")]

\* a reporter whose first catch block is empty
HandleJsonNoFallback ==
  /\ pc = "json"
  /\ \/ /\ res' = Commit(SetStatus(res, result.status), "application/json",
                         JSONstringify(Payload(result)), "json")
        /\ pc' = "done"
     \/ /\ res' = [SetStatus(res, result.status) EXCEPT !.calls = Append(@, "json!")]
        /\ pc' = "done"
  /\ UNCHANGED <<error, result, logs, friendly, req, calls, thrown>>

\* try { res.status(status).json(payload) } : the write succeeds or throws
HandleJson ==
  /\ pc = "json"
  /\ \/ /\ res' = Commit(SetStatus(res, result.status), "application/json",
                         JSONstringify(Payload(result)), "json")
        /\ pc' = "done"
     \/ /\ res' = [SetStatus(res, result.status) EXCEPT !.calls = Append(@, "json!")]
        /\ pc' = "fallback"
  /\ UNCHANGED <<error, result, logs, friendly, req, calls, thrown>>

\* catch { try { res.status(status).end(JSON.stringify(payload)) } catch {} }
HandleFallback ==
  /\ pc = "fallback"
  /\ \/ res' = Commit(SetStatus(res, result.status), "",
                      JSONstringify(Payload(result)), "end")
     \/ res' = [SetStatus(res, result.status) EXCEPT !.calls = Append(@, "end!")]
  /\ pc' = "done"
  /\ UNCHANGED <<error, result, logs, friendly, req, calls, thrown>>

----------------------------------------------------------------------------
(* The two route handlers (chat, tools): their bodies are the same           *)

Methods == {"GET", "POST", "PUT"}

\* req.body: no body at all, a body without messages, messages the
\* conversion rejects, messages it accepts
Bodies == {"undefined", "no_messages", "bad_messages", "ok"}

HandlerCall ==
  /\ pc = "idle"
  /\ \E h \in {"chat", "tools"}, m \in Methods, b \in Bodies :
       /\ req' = [handler |-> h, method |-> m, body |-> b]
       /\ pc' = "h_method"
       /\ UNCHANGED <<error, result, logs, res, friendly, calls, thrown>>

\* if (req.method !== "POST") { setHeader; status(405).end(...); return }
HandlerMethod ==
  /\ pc = "h_method"
  /\ \/ /\ req.method # "POST"
        /\ res' = [Commit(SetStatus(res, 405), "", <<"Method Not Allowed">>, "end")
                     EXCEPT !.headers = @ \cup {<<"Allow", "POST">>}]
        /\ pc' = "h_returned"
     \/ /\ req.method = "POST"
        /\ res' = res
        /\ pc' = "h_parse"
  /\ UNCHANGED <<error, result, logs, friendly, req, calls, thrown>>

\* const { messages } = req.body : destructuring undefined throws
HandlerParse ==
  /\ pc = "h_parse"
  /\ \/ /\ req.body = "undefined"
        /\ thrown' = "TypeError"
        /\ pc' = "h_rejected"
     \/ /\ req.body # "undefined"
        /\ thrown' = thrown
        /\ pc' = "h_convert"
  /\ UNCHANGED <<error, result, logs, res, friendly, req, calls>>

\* convertToModelMessages(messages), evaluated before streamText is entered
HandlerConvert ==
  /\ pc = "h_convert"
  /\ calls' = Append(calls, "convertToModelMessages")
  /\ \/ /\ req.body # "ok"
        /\ thrown' = IF req.body = "no_messages" THEN "TypeError" ELSE "MessageConversionError"
        /\ pc' = "h_rejected"
     \/ /\ req.body = "ok"
        /\ thrown' = thrown
        /\ pc' = "h_stream"
  /\ UNCHANGED <<error, result, logs, res, friendly, req>>

\* streamText(...) then result.pipeUIMessageStreamToResponse(res)
HandlerStream ==
  /\ pc = "h_stream"
  /\ calls' = calls \o <<"streamText", "pipeUIMessageStreamToResponse">>
  /\ res' = [res EXCEPT !.statusLines = @ + 1, !.calls = Append(@, "writeHead")]
  /\ pc' = "h_streaming"
  /\ UNCHANGED <<error, result, logs, friendly, req, thrown>>

\* the upstream stream ends, or raises after streaming began; the handler
\* passes no onError, so nothing of aiError.ts is called
HandlerStreamEnd ==
  /\ pc = "h_streaming"
  /\ \/ /\ res' = [res EXCEPT !.bodies = Append(@, <<"finish">>)]
        /\ pc' = "h_returned"
     \/ /\ res' = [res EXCEPT !.bodies = Append(@, <<"error">>)]
        /\ pc' = "h_stream_error"
  /\ UNCHANGED <<error, result, logs, friendly, req, calls, thrown>>

Next ==
  \/ Normalize
  \/ FriendlyMessage
  \/ HandleCall
  \/ HandleLog
  \/ HandleJson
  \/ HandleFallback
  \/ HandlerCall
  \/ HandlerMethod
  \/ HandlerParse
  \/ HandlerConvert
  \/ HandlerStream
  \/ HandlerStreamEnd

Spec == Init /\ [][Next]_vars

----------------------------------------------------------------------------
(* Properties *)

\* the states in which `result` holds a classification of `error`
Classified == pc \in {"normalized", "log", "json", "fallback", "done"}

FixedStatuses == {400, 401, 403, 404, 409, 422, 429, 500, 502, 503}

IsObj(e) == e.typeOf = "object" /\ ~e.isNull

\* the numbers found in the status, statusCode and response.status fields
InputNumbers(e) ==
  {v.n : v \in {w \in {Get(e, "status"), Get(e, "statusCode"),
                       Get(Get(e, "response"), "status")} : w.typeOf = "number"}}

\* the input's name and message as the first step of the algorithm reads them
NameOf(e) == IF Get(e, "name").typeOf = "string" THEN Get(e, "name").s ELSE "Error"

MessageOf(e) ==
  IF Get(e, "message").typeOf = "string" THEN Get(e, "message").s ELSE "Unexpected error"

\* status, else statusCode, else response.status, else the default
ExpectedStatus(e, dflt) ==
  IF Get(e, "status").typeOf = "number" THEN Get(e, "status").n
  ELSE IF Get(e, "statusCode").typeOf = "number" THEN Get(e, "statusCode").n
  ELSE IF Get(Get(e, "response"), "status").typeOf = "number"
  THEN Get(Get(e, "response"), "status").n
  ELSE dflt

\* C1 (as stated): the status of every classification is a member of the
\* fixed set {400, 401, 403, 404, 409, 422, 429, 500, 502, 503}.
C1_StatusInFixedSet == Classified => result.status \in FixedStatuses

\* C1 (amended): every classification is a well-formed record whose status is
\* a member of the fixed set or one of the numbers carried by the input's
\* status, statusCode or response.status field, which the API-call-failed,
\* RetryError and other-SDK-error rules pass through unchanged.
C1_StatusFixedOrFromInput ==
  Classified =>
    /\ result.status \in FixedStatuses \cup InputNumbers(error)
    /\ result.status \notin FixedStatuses =>
         \/ IsObj(error) /\ error.cls = "APICallError"
         \/ result.code \in {<<"provider", "retry">>, <<"ai_sdk", "error">>}
    /\ Len(result.code) \in {1, 2}
    /\ result.name \in NameStrings \cup {"Error", "RetryError", "handler"}
    /\ result.message \in {"boom", "Unexpected error", "Missing or invalid API key"}

C1_Witness ==
  /\ pc = "normalized"
  /\ IsObj(error) /\ error.cls = "APICallError"
  /\ Get(error, "status") = Num(418)
  /\ result.status = 418

PlainNamed(e, n) ==
  /\ IsObj(e) /\ e.cls = "Object"
  /\ Get(e, "name") = Str(n)

\* C2 (as stated): a plain object carrying only the name string of a
\* structured kind is classified by that kind's rule: {name:"LoadAPIKeyError"}
\* gives 401 auth.no_api_key and {name:"APICallError", status:429} gives 429
\* provider.rate_limited.
C2_NameOnlyMatchesKind ==
  Classified =>
    /\ PlainNamed(error, "LoadAPIKeyError") /\ DOMAIN error.props = {"name"} =>
         result.status = 401 /\ result.code = <<"auth", "no_api_key">>
    /\ PlainNamed(error, "APICallError") /\ DOMAIN error.props = {"name", "status"}
         /\ Get(error, "status") = Num(429) =>
         result.status = 429 /\ result.code = <<"provider", "rate_limited">>

\* C2 (amended): the rules of the structured kinds apply to instances only:
\* an instance of LoadAPIKeyError gives 401 auth.no_api_key and an instance of
\* APICallError with status 429 gives 429 provider.rate_limited, while a plain
\* object that only carries the name string "LoadAPIKeyError" or
\* "APICallError" (without a network code) gives 500 unknown, whatever its
\* status fields.
C2_KindRulesNeedInstances ==
  Classified =>
    /\ IsObj(error) /\ error.cls = "LoadAPIKeyError" =>
         result.status = 401 /\ result.code = <<"auth", "no_api_key">>
    /\ IsObj(error) /\ error.cls = "APICallError" /\ Get(error, "status") = Num(429) =>
         result.status = 429 /\ result.code = <<"provider", "rate_limited">>
    /\ (PlainNamed(error, "LoadAPIKeyError") \/ PlainNamed(error, "APICallError"))
         /\ Get(error, "code").typeOf # "string" =>
         result.status = 500 /\ result.code = <<"unknown">>

C2_Witness ==
  /\ pc = "normalized"
  /\ PlainNamed(error, "LoadAPIKeyError") /\ DOMAIN error.props = {"name"}
  /\ result.status = 500 /\ result.code = <<"unknown">>

\* C3 (as stated): under every rule the result's name is the input's name when
\* that is a string and "Error" otherwise, and the result's message is the
\* input's message when that is a string and "Unexpected error" otherwise.
C3_NameAndMessagePreserved ==
  Classified => result.name = NameOf(error) /\ result.message = MessageOf(error)

\* C3 (amended): the result's name is the input's name when that is a string
\* and "Error" otherwise; the result's message is the input's message when
\* that is a string and "Unexpected error" otherwise, except under the
\* API-key rule (an instance of LoadAPIKeyError), whose message is always
\* "Missing or invalid API key"; a primitive input gives
\* {500, unknown, "Error", "Unexpected error"}.
C3_NameAndMessageExceptApiKey ==
  Classified =>
    /\ result.name = NameOf(error)
    /\ result.message =
         IF IsObj(error) /\ error.cls = "LoadAPIKeyError"
         THEN "Missing or invalid API key"
         ELSE MessageOf(error)
    /\ error.typeOf \notin {"object", "function"} \/ error.isNull =>
         result = [status |-> 500, code |-> <<"unknown">>, name |-> "Error",
                   message |-> "Unexpected error"]

C3_Witness ==
  /\ pc = "normalized"
  /\ error = Str("just a string")
  /\ result = [status |-> 500, code |-> <<"unknown">>, name |-> "Error",
               message |-> "Unexpected error"]

\* the transport calls of a finished handleAIError
WriteTraces ==
  {<<"status", "json">>,
   <<"status", "json!", "status", "end">>,
   <<"status", "json!", "status", "end!">>}

\* C4 (as stated): every call of handleAIError commits exactly one response,
\* with exactly one status line, also when the writes throw.
C4_ExactlyOneResponse ==
  pc = "done" => res.statusLines = 1 /\ Len(res.bodies) = 1

\* C4 (amended): every call of handleAIError commits at most one response and
\* writes the status line at most once; the JSON write is attempted first,
\* the fallback raw write of the serialized payload is attempted exactly when
\* the JSON write throws, exactly one response (status = the normalized
\* status, body = the payload) is committed when either write succeeds and
\* none when both throw, and the call returns without raising in all cases.
C4_AtMostOneResponse ==
  /\ pc \in {"log", "json", "fallback", "done"} =>
       /\ res.statusLines <= 1
       /\ Len(res.bodies) = res.statusLines
       /\ thrown = "none"
  /\ pc = "fallback" => res.calls = <<"status", "json!">> /\ res.statusLines = 0
  /\ pc = "done" =>
       /\ res.calls \in WriteTraces
       /\ res.statusLines = IF res.calls[Len(res.calls)] \in {"json", "end"} THEN 1 ELSE 0
       /\ res.statusLines = 1 =>
            /\ res.statusCode = result.status
            /\ res.bodies = <<JSONstringify(Payload(result))>>

C4_Witness ==
  /\ pc = "done"
  /\ res.calls = <<"status", "json!", "status", "end">>
  /\ res.statusLines = 1

\* C5: every call of handleAIError emits exactly one log entry, carrying the
\* normalized name, code, status and message, and emits it before the first
\* response write is attempted, so the entry exists also when both writes fail.
C5_LogBeforeWrite ==
  /\ pc \in {"log", "json", "fallback", "done"} =>
       /\ Len(logs) <= 1
       /\ res.calls # <<>> => Len(logs) = 1
  /\ pc \in {"json", "fallback", "done"} =>
       /\ Len(logs) = 1
       /\ logs[1].name = result.name /\ logs[1].code = result.code
       /\ logs[1].status = result.status /\ logs[1].message = result.message

C5_Witness ==
  /\ pc = "done"
  /\ res.calls = <<"status", "json!", "status", "end!">>
  /\ Len(logs) = 1

AuthMessage == "Authentication failed (check API key)."

RateMessage == "Rate limited. Please wait and try again."

InputMessage == "Invalid input. Please adjust your request and try again."

ToolMessage == "A tool call failed. Please try again."

ModelMessage == "Model configuration issue. Please try again later."

NetworkMessage == "Network error. Please retry."

ProviderMessage == "The model provider had an error. Please retry."

GenericMessage == "Something went wrong. Please try again."

\* C6: the mapper returns the string of the first matching entry of the table
\* auth.*, provider.rate_limited, input.*, tool.*, model.*, network.*,
\* provider.error, otherwise generic, applied to the code of the
\* classification; provider.retry gets the generic message.
C6_FriendlyTable ==
  pc = "mapped" =>
    LET c == normalizeAIError(error).code IN
    /\ friendly \in {AuthMessage, RateMessage, InputMessage, ToolMessage,
                     ModelMessage, NetworkMessage, ProviderMessage, GenericMessage}
    /\ friendly = AuthMessage <=>
         c \in {<<"auth", "no_api_key">>, <<"auth", "unauthorized">>, <<"auth", "forbidden">>}
    /\ friendly = RateMessage <=> c = <<"provider", "rate_limited">>
    /\ friendly = InputMessage <=> c = <<"input", "invalid">>
    /\ friendly = ToolMessage <=> c = <<"tool", "invalid">>
    /\ friendly = ModelMessage <=>
         c \in {<<"model", "not_found">>, <<"model", "unsupported_functionality">>,
                <<"model", "unsupported">>}
    /\ friendly = NetworkMessage <=>
         c \in {<<"network", "etimedout">>, <<"network", "econnreset">>,
                <<"network", "enotfound">>}
    /\ friendly = ProviderMessage <=> c = <<"provider", "error">>
    /\ c \in {<<"provider", "retry">>, <<"provider", "not_found">>,
              <<"provider", "conflict">>, <<"provider", "unprocessable">>,
              <<"provider", "request_failed">>, <<"provider", "invalid_response">>,
              <<"provider", "no_output">>, <<"provider", "network_error">>,
              <<"stream", "invalid_part">>, <<"ai_sdk", "error">>, <<"unknown">>} =>
         friendly = GenericMessage

C6_Witness ==
  /\ pc = "mapped"
  /\ PlainNamed(error, "RetryError") /\ DOMAIN error.props = {"name"}
  /\ friendly = GenericMessage

\* C7: an input named "RetryError" that is not an instance of an earlier
\* structured kind and also carries a network code is classified
\* provider.retry with the status taken from the error (default 503), never
\* network.*.
C7_RetryBeforeNetwork ==
  Classified
    /\ Get(error, "name") = Str("RetryError")
    /\ error.cls \notin NamedClasses
    /\ Get(error, "code") \in {Str("ETIMEDOUT"), Str("ECONNRESET"), Str("ENOTFOUND")}
  => /\ result.code = <<"provider", "retry">>
     /\ result.status = ExpectedStatus(error, 503)

C7_Witness ==
  /\ pc = "normalized"
  /\ PlainNamed(error, "RetryError")
  /\ Get(error, "code") = Str("ECONNRESET")
  /\ result.code = <<"provider", "retry">>
  /\ result.status = 503

\* C8: under the API-call-failed, RetryError and other-SDK-error rules the
\* result status is the status field when it is a number, else statusCode
\* when it is a number, else response.status when it is a number, else the
\* rule's default (502, 503, 500).
C8_StatusPrecedence ==
  Classified =>
    /\ IsObj(error) /\ error.cls = "APICallError" =>
         result.status = ExpectedStatus(error, 502)
    /\ result.code = <<"provider", "retry">> =>
         result.status = ExpectedStatus(error, 503)
    /\ result.code = <<"ai_sdk", "error">> =>
         result.status = ExpectedStatus(error, 500)

C8_Witness ==
  /\ pc = "normalized"
  /\ IsObj(error) /\ error.cls = "SDKOther"
  /\ Get(error, "status") = Num(500)
  /\ Get(error, "statusCode") = Num(404)
  /\ result.status = 500

\* C9: under the API-call-failed rule the result status is the extracted
\* status s and the code is auth.unauthorized for 401, auth.forbidden for 403,
\* provider.not_found for 404, provider.conflict for 409,
\* provider.unprocessable for 422, provider.rate_limited for 429,
\* provider.error for s >= 500 and provider.request_failed for every other s.
C9_ApiCallTable ==
  Classified /\ IsObj(error) /\ error.cls = "APICallError" =>
    LET s == ExpectedStatus(error, 502) IN
    /\ result.status = s
    /\ s = 401 => result.code = <<"auth", "unauthorized">>
    /\ s = 403 => result.code = <<"auth", "forbidden">>
    /\ s = 404 => result.code = <<"provider", "not_found">>
    /\ s = 409 => result.code = <<"provider", "conflict">>
    /\ s = 422 => result.code = <<"provider", "unprocessable">>
    /\ s = 429 => result.code = <<"provider", "rate_limited">>
    /\ s >= 500 => result.code = <<"provider", "error">>
    /\ s < 500 /\ s \notin {401, 403, 404, 409, 422, 429} =>
         result.code = <<"provider", "request_failed">>

C9_Witness ==
  /\ pc = "normalized"
  /\ IsObj(error) /\ error.cls = "APICallError"
  /\ Get(error, "status") = Num(500)
  /\ result.code = <<"provider", "error">>

Range(q) == {q[i] : i \in DOMAIN q}

\* C10: a non-POST request is answered 405 with Allow: POST and without the
\* upstream call, and every error raised by body parsing, message conversion
\* or the upstream stream leads to a call of handleAIError or of
\* getStreamFriendlyMessage.
C10_HandlerReportsErrors ==
  /\ pc = "h_returned" /\ req.method # "POST" =>
       /\ res.statusCode = 405
       /\ <<"Allow", "POST">> \in res.headers
       /\ "streamText" \notin Range(calls)
  /\ pc \in {"h_rejected", "h_stream_error"} =>
       \/ "handleAIError" \in Range(calls)
       \/ "getStreamFriendlyMessage" \in Range(calls)

====
